---- MODULE Spec2Model ----
(***************************************************************************)
(* Model of src/app.py: the match resolver (find_match_id), the event      *)
(* normaliser (build_clean_events), the per-90 aggregator (build_per90)    *)
(* and the player-name join of main (get_player_lookup + merge).           *)
(*                                                                         *)
(* Python values that may be missing are modelled as options: None is the  *)
(* empty sequence, Some(v) the one-element sequence.  For a dict key the   *)
(* option says whether the key is present; for a DataFrame cell it says    *)
(* whether the cell is null (None / NaN).                                  *)
(***************************************************************************)
EXTENDS Integers, Sequences, FiniteSets, TLC

VARIABLES
    pc,               \* control position of the running function
    df_matches,       \* the match catalog (load_matches), a sequence of rows
    team1, team2,     \* arguments of find_match_id
    match_id,         \* value returned by find_match_id (None while none)
    st_error,         \* message shown by st.error (None while none)
    files,            \* EVENTS_DIR: match_id -> event log, or Unreadable
    mi,               \* position in df_matches["match_id"] of the outer loop
    events,           \* json.load(f) of the match being processed
    ei,               \* position in events of the inner loop
    event_rows,       \* the list build_clean_events appends to
    df_events_clean,  \* DataFrame returned by build_clean_events (None while none)
    df_per90,         \* DataFrame returned by build_per90 (None while none)
    df_players,       \* DataFrame returned by get_player_lookup (None while none)
    df_per90_named    \* df_per90.merge(df_players, ...) (None while none)

vars == <<pc, df_matches, team1, team2, match_id, st_error, files, mi, events,
          ei, event_rows, df_events_clean, df_per90, df_players, df_per90_named>>

resolverVars == <<team1, team2, match_id, st_error>>
normVars == <<files, mi, events, ei, event_rows>>
aggVars == <<df_per90, df_players, df_per90_named>>

-----------------------------------------------------------------------------
(* Options, sequences                                                        *)

None == <<>>
Some(v) == <<v>>
IsSome(o) == o # <<>>
Val(o) == o[1]

\* d.get(key, default) where o is the option held under the key
GetOr(o, default) == IF o = None THEN default ELSE Val(o)

Range(s) == {s[i] : i \in 1..Len(s)}

SeqsUpTo(S, n) == UNION {[1..k -> S] : k \in 0..n}

RECURSIVE SumSeq(_)
SumSeq(s) == IF s = <<>> THEN 0 ELSE Head(s) + SumSeq(Tail(s))

RECURSIVE Flatten(_)
Flatten(ss) == IF ss = <<>> THEN <<>> ELSE Head(ss) \o Flatten(Tail(ss))

\* the elements of a finite set of integers in increasing order
RECURSIVE SortedSeq(_)
SortedSeq(S) ==
    IF S = {} THEN <<>>
    ELSE LET m == CHOOSE x \in S : \A y \in S : x <= y
         IN <<m>> \o SortedSeq(S \ {m})

SetMin(S) == CHOOSE x \in S : \A y \in S : x <= y
SetMax(S) == CHOOSE x \in S : \A y \in S : x >= y

-----------------------------------------------------------------------------
(* Bounds of the model                                                       *)

MaxCatalog == 2     \* longest catalog given to find_match_id
MaxMatches == 2     \* longest catalog given to build_clean_events
MaxEvents == 2      \* longest event log of one match
MaxRows == 3        \* longest normalised event sequence given to build_per90

-----------------------------------------------------------------------------
(* Match catalog and find_match_id                                           *)

Teams == {"Argentina", "Mexico", "Saudi Arabia"}
QueryTeams == Teams \cup {"Brazil"}

\* the match_id of the i-th catalog row (ids fall as the catalog goes on, so
\* catalog order and id order differ)
MatchIdAt(i) == 3900 - i

\* a home_team / away_team cell: a dict with an optional name, or a non-dict
\* (NaN for a row whose JSON record has no such key)
HomeCells == {[is_dict |-> FALSE, home_team_name |-> None]}
             \cup {[is_dict |-> TRUE, home_team_name |-> n] :
                     n \in {None} \cup {Some(t) : t \in Teams}}
AwayCells == {[is_dict |-> FALSE, away_team_name |-> None]}
             \cup {[is_dict |-> TRUE, away_team_name |-> n] :
                     n \in {None} \cup {Some(t) : t \in Teams}}

Catalogs(n) ==
    UNION {{[i \in 1..k |-> [match_id |-> MatchIdAt(i),
                             home_team |-> h[i], away_team |-> a[i]]] :
              h \in [1..k -> HomeCells], a \in [1..k -> AwayCells]} : k \in 0..n}

\* lambda x: isinstance(x, dict) and x.get("home_team_name") == team
HomeIs(x, team) == x.is_dict /\ x.home_team_name = Some(team)
AwayIs(x, team) == x.is_dict /\ x.away_team_name = Some(team)

\* mutant: only the (team1 = home, team2 = away) orientation is selected
RowSelectedHomeAwayOnly(r, t1, t2) ==
    HomeIs(r.home_team, t1) /\ AwayIs(r.away_team, t2)

\* the boolean mask of find_match_id, for one row
RowSelected(r, t1, t2) ==
    \/ (HomeIs(r.home_team, t1) /\ AwayIs(r.away_team, t2))
    \/ (HomeIs(r.home_team, t2) /\ AwayIs(r.away_team, t1))

\* match = df_matches[mask]
MatchRows(df, t1, t2) == SelectSeq(df, LAMBDA r : RowSelected(r, t1, t2))

\* mutant: the emptiness test also fires for a single selected row
MatchEmptyOffByOne(match) == Len(match) <= 1

\* match.empty
MatchEmpty(match) == match = <<>>

\* what find_match_id returns: Some(id), or None when it stops the request
FindMatchIdValue(df, t1, t2) ==
    LET match == MatchRows(df, t1, t2)
    IN IF MatchEmpty(match) THEN None ELSE Some(match[1].match_id)

ErrorMessage(t1, t2) == <<"No match found for", t1, "vs", t2>>

\* find_match_id(df_matches, team1, team2)
FindMatchId ==
    /\ pc = "find_match_id"
    /\ LET match == MatchRows(df_matches, team1, team2)
       IN IF MatchEmpty(match)
          THEN /\ st_error' = Some(ErrorMessage(team1, team2))
               /\ match_id' = None
               /\ pc' = "stopped"
          ELSE /\ match_id' = Some(match[1].match_id)
               /\ st_error' = None
               /\ pc' = "returned"
    /\ UNCHANGED <<df_matches, team1, team2, df_events_clean>>
    /\ UNCHANGED normVars
    /\ UNCHANGED aggVars

InitResolve ==
    /\ pc = "find_match_id"
    /\ df_matches \in Catalogs(MaxCatalog)
    /\ team1 \in QueryTeams
    /\ team2 \in QueryTeams
    /\ match_id = None
    /\ st_error = None
    /\ files = <<>>
    /\ mi = 0
    /\ events = <<>>
    /\ ei = 0
    /\ event_rows = <<>>
    /\ df_events_clean = None
    /\ df_per90 = None
    /\ df_players = None
    /\ df_per90_named = None

NextResolve == FindMatchId

SpecResolve == InitResolve /\ [][NextResolve]_vars

-----------------------------------------------------------------------------
(* Claims about find_match_id                                                *)

\* the unordered pair of names of a catalog row is the queried pair
PairIs(r, t1, t2) ==
    /\ r.home_team.is_dict
    /\ r.away_team.is_dict
    /\ {r.home_team.home_team_name, r.away_team.away_team_name} = {Some(t1), Some(t2)}

PairExists == \E i \in 1..Len(df_matches) : PairIs(df_matches[i], team1, team2)

FirstPairIndex ==
    CHOOSE i \in 1..Len(df_matches) :
        /\ PairIs(df_matches[i], team1, team2)
        /\ \A j \in 1..(i - 1) : ~PairIs(df_matches[j], team1, team2)

\* C3: when a row for the unordered pair {team1, team2} exists, the call
\* returns the match_id of the first such row in catalog order, and the call
\* with the two names swapped returns the same id.
C3_OrderInsensitiveFirstMatch ==
    (pc # "find_match_id" /\ PairExists) =>
        /\ match_id = Some(df_matches[FirstPairIndex].match_id)
        /\ FindMatchIdValue(df_matches, team2, team1) = match_id

\* a rematch: two rows for the pair, the first of them with team2 at home
C3_Witness ==
    /\ pc = "returned"
    /\ team1 # team2
    /\ Cardinality({i \in 1..Len(df_matches) : PairIs(df_matches[i], team1, team2)}) >= 2
    /\ HomeIs(df_matches[FirstPairIndex].home_team, team2)

-----------------------------------------------------------------------------
(* Raw events and build_clean_events                                         *)
(*                                                                           *)
(* A raw event is a JSON object whose optional keys are present or absent;   *)
(* a key that is present holds a value of the shape the data format gives it *)
(* (an object, a two-element list, a number, a boolean).  A key holding null *)
(* or a list of another length is outside the events modelled here.          *)

OPEN_PLAY_EXCLUDE == {"Corner", "Free Kick", "Throw-in", "Kick Off"}

EmptyNameDict == [name |-> None]                      \* {} read with .get("name")
EmptyPlayerDict == [id |-> None, name |-> None]       \* {} read with .get("id"), .get("name")
EmptyPassDict == [type |-> None, end_location |-> None, shot_assist |-> None]
EmptyShotDict == [statsbomb_xg |-> None]
NonePair == <<None, None>>                            \* [None, None]

TypeCells == {None} \cup {Some([name |-> Some(n)]) : n \in {"Pass", "Shot", "Carry"}}
PlayerCells == {None, Some([id |-> Some(5503), name |-> Some("Messi")])}
LocationCells == {None, Some(<<Some(85), Some(40)>>)}
MinuteCells == {None, Some(10)}
PassTypeCells == {None} \cup {Some([name |-> Some(n)]) : n \in OPEN_PLAY_EXCLUDE \cup {"Recovery"}}
EndLocationCells == {None, Some(<<Some(95), Some(42)>>)}
ShotAssistCells == {None, Some(TRUE)}
PassCells == {None} \cup {Some([type |-> t, end_location |-> l, shot_assist |-> a]) :
                            t \in PassTypeCells, l \in EndLocationCells, a \in ShotAssistCells}
ShotCells == {None, Some(EmptyShotDict), Some([statsbomb_xg |-> Some(350)])}

\* an event carries the pass object or the shot object in every combination
\* of their optional keys, or both objects with all their keys
BothPassCells == {Some([type |-> t, end_location |-> Some(<<Some(95), Some(42)>>),
                        shot_assist |-> Some(TRUE)]) :
                    t \in {None, Some([name |-> Some("Corner")])}}
RawEvents ==
    {e \in [type : TypeCells, player : PlayerCells, location : LocationCells,
            minute : MinuteCells, pass : PassCells, shot : ShotCells] :
        \/ e.pass = None
        \/ e.shot = None
        \/ (e.pass \in BothPassCells /\ e.shot = Some([statsbomb_xg |-> Some(350)]))}

\* the event that fills the rest of a log: an ordinary open-play pass
OpenPlayPass ==
    [type |-> Some([name |-> Some("Pass")]),
     player |-> Some([id |-> Some(1), name |-> Some("A")]),
     location |-> Some(<<Some(85), Some(40)>>),
     minute |-> Some(10),
     pass |-> Some([type |-> None, end_location |-> Some(<<Some(95), Some(42)>>),
                    shot_assist |-> Some(TRUE)]),
     shot |-> None]
BasicEvents == {OpenPlayPass}

\* e.get("type", {}).get("name")
EventTypeName(e) == GetOr(e.type, EmptyNameDict).name

\* p.get("type", {}).get("name") for p = e.get("pass", {})
PassTypeName(e) == GetOr(GetOr(e.pass, EmptyPassDict).type, EmptyNameDict).name

\* mutant: "Carry" events are kept as well
KeptTypeWithCarry(event_type) == event_type \in {Some("Pass"), Some("Shot"), Some("Carry")}

\* not (event_type not in ["Pass", "Shot"])
KeptType(event_type) == event_type \in {Some("Pass"), Some("Shot")}

\* mutant: "Throw-in" is missing from the exclusion list
ExcludedSubTypeNoThrowIn(name) ==
    name \in {Some(n) : n \in OPEN_PLAY_EXCLUDE \ {"Throw-in"}}

\* p.get("type", {}).get("name") in OPEN_PLAY_EXCLUDE
ExcludedSubType(name) == name \in {Some(n) : n \in OPEN_PLAY_EXCLUDE}

\* the dict literal of lines 77-89
BaseRow(mid, e, event_type) ==
    [match_id |-> mid,
     player_id |-> GetOr(e.player, EmptyPlayerDict).id,
     player_name |-> GetOr(e.player, EmptyPlayerDict).name,
     event_type |-> Val(event_type),
     x |-> GetOr(e.location, NonePair)[1],
     y |-> GetOr(e.location, NonePair)[2],
     end_x |-> None,
     end_y |-> None,
     shot_assist |-> FALSE,
     xg |-> None,
     minute |-> e.minute]

\* mutant: the default of shot_assist is True
PassFieldsAssistDefaultTrue(row, p) ==
    [row EXCEPT !.end_x = GetOr(p.end_location, NonePair)[1],
                !.end_y = GetOr(p.end_location, NonePair)[2],
                !.shot_assist = GetOr(p.shot_assist, TRUE)]

\* lines 95-96: the row with the pass fields set
PassFields(row, p) ==
    [row EXCEPT !.end_x = GetOr(p.end_location, NonePair)[1],
                !.end_y = GetOr(p.end_location, NonePair)[2],
                !.shot_assist = GetOr(p.shot_assist, FALSE)]

\* the body of the inner loop for one event: None for `continue`,
\* Some(row) for event_rows.append(row)
NormalizeEvent(mid, e) ==
    LET event_type == EventTypeName(e)
    IN IF ~KeptType(event_type) THEN None
       ELSE LET row == BaseRow(mid, e, event_type)
            IN IF event_type = Some("Pass")
               THEN LET p == GetOr(e.pass, EmptyPassDict)
                    IN IF ExcludedSubType(PassTypeName(e))
                       THEN None
                       ELSE Some(PassFields(row, p))
               ELSE IF event_type = Some("Shot")
                    THEN Some([row EXCEPT !.xg = GetOr(e.shot, EmptyShotDict).statsbomb_xg])
                    ELSE Some(row)

Unreadable == [ok |-> FALSE, events |-> <<>>]
Readable(s) == [ok |-> TRUE, events |-> s]

CurrentMatchId == df_matches[mi].match_id

\* mutant: a match whose log cannot be read is skipped
OpenMatchSkipUnreadable ==
    /\ pc = "for_match"
    /\ mi < Len(df_matches)
    /\ LET mid == df_matches[mi + 1].match_id
       IN /\ mi' = mi + 1
          /\ ei' = 0
          /\ events' = files[mid].events
          /\ pc' = IF files[mid].ok /\ files[mid].events # <<>> THEN "for_event" ELSE "for_match"
    /\ UNCHANGED <<df_matches, files, event_rows, df_events_clean>>
    /\ UNCHANGED resolverVars
    /\ UNCHANGED aggVars

\* lines 68-70: the next match_id of the catalog, open(...) and json.load(f)
OpenMatch ==
    /\ pc = "for_match"
    /\ mi < Len(df_matches)
    /\ LET mid == df_matches[mi + 1].match_id
       IN IF ~files[mid].ok
          THEN /\ pc' = "raised"
               /\ UNCHANGED <<mi, ei, events>>
          ELSE /\ mi' = mi + 1
               /\ ei' = 0
               /\ events' = files[mid].events
               /\ pc' = IF files[mid].events = <<>> THEN "for_match" ELSE "for_event"
    /\ UNCHANGED <<df_matches, files, event_rows, df_events_clean>>
    /\ UNCHANGED resolverVars
    /\ UNCHANGED aggVars

\* lines 72-101: one pass of the inner loop
ProcessEvent ==
    /\ pc = "for_event"
    /\ ei < Len(events)
    /\ LET row == NormalizeEvent(CurrentMatchId, events[ei + 1])
       IN event_rows' = IF row = None THEN event_rows ELSE Append(event_rows, Val(row))
    /\ ei' = ei + 1
    /\ pc' = IF ei + 1 = Len(events) THEN "for_match" ELSE "for_event"
    /\ UNCHANGED <<df_matches, files, mi, events, df_events_clean>>
    /\ UNCHANGED resolverVars
    /\ UNCHANGED aggVars

\* line 103: return pd.DataFrame(event_rows)
ReturnCleanEvents ==
    /\ pc = "for_match"
    /\ mi = Len(df_matches)
    /\ df_events_clean' = Some(event_rows)
    /\ pc' = "done"
    /\ UNCHANGED <<df_matches, files, mi, events, ei, event_rows>>
    /\ UNCHANGED resolverVars
    /\ UNCHANGED aggVars

\* a catalog of k matches for the normaliser (only match_id is read)
PlainCatalog(k) ==
    [i \in 1..k |-> [match_id |-> MatchIdAt(i),
                     home_team |-> [is_dict |-> FALSE, home_team_name |-> None],
                     away_team |-> [is_dict |-> FALSE, away_team_name |-> None]]]

BasicLogs == {Unreadable} \cup {Readable(s) : s \in SeqsUpTo(BasicEvents, MaxEvents)}

\* the event directories for a catalog of k matches: every log is Unreadable
\* or a sequence of at most MaxEvents events, of which at most one, anywhere
\* in the directory, is not one of BasicEvents
IsDirectory(k, f) ==
    LET ids == {MatchIdAt(i) : i \in 1..k}
    IN \E g \in [ids -> BasicLogs] :
          \/ f = g
          \/ \E m \in ids :
                /\ g[m].ok
                /\ \E p \in 1..Len(g[m].events), e \in RawEvents :
                      f = [g EXCEPT ![m] = Readable([g[m].events EXCEPT ![p] = e])]

InitNorm ==
    /\ pc = "for_match"
    /\ \E k \in 0..MaxMatches :
          /\ df_matches = PlainCatalog(k)
          /\ IsDirectory(k, files)
    /\ team1 = "Argentina"
    /\ team2 = "Mexico"
    /\ match_id = None
    /\ st_error = None
    /\ mi = 0
    /\ events = <<>>
    /\ ei = 0
    /\ event_rows = <<>>
    /\ df_events_clean = None
    /\ df_per90 = None
    /\ df_players = None
    /\ df_per90_named = None

NextNorm == OpenMatch \/ ProcessEvent \/ ReturnCleanEvents

SpecNorm == InitNorm /\ [][NextNorm]_vars

-----------------------------------------------------------------------------
(* Claims about build_clean_events                                           *)

\* the event the inner loop is about to process
NextEvent == events[ei + 1]
AtEvent == pc = "for_event"

IsPassOrShot(e) ==
    /\ e.type # None
    /\ Val(e.type).name \in {Some("Pass"), Some("Shot")}
IsPass(e) == e.type # None /\ Val(e.type).name = Some("Pass")
IsShot(e) == e.type # None /\ Val(e.type).name = Some("Shot")

\* the pass sub-type is present and is one of the four set-piece names
IsSetPiece(e) ==
    /\ e.pass # None
    /\ Val(e.pass).type # None
    /\ \E n \in {"Corner", "Free Kick", "Throw-in", "Kick Off"} :
          Val(Val(e.pass).type).name = Some(n)

AllRowsPassOrShot(rows) ==
    \A i \in 1..Len(rows) : rows[i].event_type \in {"Pass", "Shot"}

\* C1: the output holds only Pass and Shot records, and an event whose type
\* is anything else, or absent, adds no record.
C1_OnlyPassAndShot ==
    /\ [](AllRowsPassOrShot(event_rows)
          /\ (df_events_clean # None => AllRowsPassOrShot(Val(df_events_clean))))
    /\ [][(AtEvent /\ ~IsPassOrShot(NextEvent)) => event_rows' = event_rows]_vars

\* an event without a type, every other key present, went by without a row
C1_Witness ==
    /\ mi = 1 /\ ei = 1 /\ Len(events) = 2
    /\ events[1].type = None
    /\ events[1].player # None /\ events[1].location # None
    /\ events[1].minute # None /\ events[1].pass # None
    /\ event_rows = <<>>

\* C2: a Pass whose sub-type is Corner, Free Kick, Throw-in or Kick Off adds
\* no record whatever its other fields; any other Pass adds one record.
C2_SetPiecePassesExcluded ==
    [][(AtEvent /\ IsPass(NextEvent)) =>
          IF IsSetPiece(NextEvent)
          THEN event_rows' = event_rows
          ELSE /\ Len(event_rows') = Len(event_rows) + 1
               /\ SubSeq(event_rows', 1, Len(event_rows)) = event_rows
               /\ event_rows'[Len(event_rows')].event_type = "Pass"
               /\ event_rows'[Len(event_rows')].match_id = CurrentMatchId]_vars

\* a throw-in with every key present went by without a row
C2_Witness ==
    /\ mi = 1 /\ ei = 1 /\ Len(events) = 2
    /\ IsPass(events[1])
    /\ events[1].pass # None
    /\ Val(events[1].pass).type = Some([name |-> Some("Throw-in")])
    /\ Val(events[1].pass).end_location # None
    /\ Val(events[1].pass).shot_assist = Some(TRUE)
    /\ events[1].player # None /\ events[1].location # None /\ events[1].minute # None
    /\ event_rows = <<>>

\* the record the claim expects for a retained event: every field whose
\* source is absent is null, shot_assist false
ExpectedRow(mid, e) ==
    LET hasPass == IsPass(e) /\ e.pass # None
        hasShot == IsShot(e) /\ e.shot # None
    IN [match_id |-> mid,
        player_id |-> IF e.player = None THEN None ELSE Val(e.player).id,
        player_name |-> IF e.player = None THEN None ELSE Val(e.player).name,
        event_type |-> Val(Val(e.type).name),
        x |-> IF e.location = None THEN None ELSE Val(e.location)[1],
        y |-> IF e.location = None THEN None ELSE Val(e.location)[2],
        end_x |-> IF hasPass /\ Val(e.pass).end_location # None
                  THEN Val(Val(e.pass).end_location)[1] ELSE None,
        end_y |-> IF hasPass /\ Val(e.pass).end_location # None
                  THEN Val(Val(e.pass).end_location)[2] ELSE None,
        shot_assist |-> IF hasPass /\ Val(e.pass).shot_assist # None
                        THEN Val(Val(e.pass).shot_assist) ELSE FALSE,
        xg |-> IF hasShot THEN Val(e.shot).statsbomb_xg ELSE None,
        minute |-> e.minute]

\* C7: a Pass or Shot that is not a set-piece pass adds exactly one record,
\* null in every field whose source is absent (shot_assist false), the loop
\* goes on, and nothing but an unreadable log raises an error.
C7_MissingFieldsDegradeToNull ==
    /\ [][(AtEvent /\ IsPassOrShot(NextEvent) /\ ~(IsPass(NextEvent) /\ IsSetPiece(NextEvent))) =>
             /\ event_rows' = Append(event_rows, ExpectedRow(CurrentMatchId, NextEvent))
             /\ pc' = (IF ei + 1 < Len(events) THEN "for_event" ELSE "for_match")
             /\ ei' = ei + 1]_vars
    /\ [](pc = "raised" => ~files[df_matches[mi + 1].match_id].ok)
    /\ [](pc = "done" => /\ mi = Len(df_matches)
                         /\ df_events_clean = Some(event_rows))

\* a pass with no player, location, minute or pass object became an all-null
\* record, and the event after it was processed too
C7_Witness ==
    /\ pc = "done"
    /\ Len(event_rows) = 2
    /\ event_rows[1].event_type = "Pass"
    /\ event_rows[1].player_id = None /\ event_rows[1].player_name = None
    /\ event_rows[1].x = None /\ event_rows[1].y = None
    /\ event_rows[1].end_x = None /\ event_rows[1].end_y = None
    /\ event_rows[1].shot_assist = FALSE
    /\ event_rows[1].xg = None /\ event_rows[1].minute = None
    /\ event_rows[2].player_id = Some(1)
    /\ event_rows[2].match_id = event_rows[1].match_id

SomeLogUnreadable == \E i \in 1..Len(df_matches) : ~files[df_matches[i].match_id].ok

\* C8: when the log of any match of the catalog cannot be read, no result is
\* returned: the loop never goes past the failing match, the error reaches
\* the caller at that match, and the records collected so far are not returned.
C8_ReadFailureIsAllOrNothing ==
    /\ \A i \in 1..mi : files[df_matches[i].match_id].ok
    /\ SomeLogUnreadable => (df_events_clean = None /\ pc # "done")
    /\ pc = "raised" => (df_events_clean = None /\ mi < Len(df_matches))
    /\ (pc = "for_match" /\ mi < Len(df_matches) /\ ~files[df_matches[mi + 1].match_id].ok)
          => ~ENABLED ReturnCleanEvents

\* the second log is unreadable after the first gave records
C8_Witness ==
    /\ pc = "raised"
    /\ mi = 1
    /\ event_rows # <<>>
    /\ df_events_clean = None

-----------------------------------------------------------------------------
(* build_per90, get_player_lookup and the join of main                       *)
(*                                                                           *)
(* A DataFrame is a sequence of rows.  In the frame of normalised events a   *)
(* nullable cell is an option; the frames that groupby makes hold plain      *)
(* player ids, in increasing order (groupby sorts its keys and drops null    *)
(* keys).  xg is counted in thousandths.                                     *)

MapSeq(s, F(_)) == [i \in 1..Len(s) |-> F(s[i])]

\* mutant: no lower bound on the minutes of one match
ClipLowerNone(v, lower) == v

\* Series.clip(lower=...)
ClipLower(v, lower) == IF v < lower THEN lower ELSE v

\* lines 107-112: one row per (match_id, player_id) with the least and the
\* greatest minute, over the rows whose player_id and minute are not null
MinutesPerMatch(df) ==
    LET rows == SelectSeq(df, LAMBDA r : r.player_id # None /\ r.minute # None)
        matchIds == SortedSeq({r.match_id : r \in Range(rows)})
        PlayersOf(m) == SortedSeq({Val(r.player_id) : r \in {q \in Range(rows) : q.match_id = m}})
        MinutesOf(m, pl) == {Val(r.minute) : r \in {q \in Range(rows) :
                                q.match_id = m /\ q.player_id = Some(pl)}}
        Group(m) == MapSeq(PlayersOf(m), LAMBDA pl :
                        [match_id |-> m, player_id |-> pl,
                         min |-> SetMin(MinutesOf(m, pl)), max |-> SetMax(MinutesOf(m, pl))])
    IN Flatten(MapSeq(matchIds, Group))

\* lines 113-114: minutes_played per match, summed per player
Minutes(df) ==
    LET perMatch == MapSeq(MinutesPerMatch(df), LAMBDA g :
                        [match_id |-> g.match_id, player_id |-> g.player_id,
                         minutes_played |-> ClipLower(g.max - g.min, 1)])
        players == SortedSeq({g.player_id : g \in Range(perMatch)})
    IN MapSeq(players, LAMBDA pl :
           [player_id |-> pl,
            minutes_played |-> SumSeq(MapSeq(SelectSeq(perMatch, LAMBDA g : g.player_id = pl),
                                             LAMBDA g : g.minutes_played))])

\* df[mask].groupby("player_id").size().reset_index(name=col): one row per
\* non-null player_id of the selected rows, with the number of those rows
GroupSize(rows, col) ==
    LET keyed == SelectSeq(rows, LAMBDA r : r.player_id # None)
        players == SortedSeq({Val(r.player_id) : r \in Range(keyed)})
    IN MapSeq(players, LAMBDA pl :
           ("player_id" :> pl) @@
           (col :> Len(SelectSeq(keyed, LAMBDA r : r.player_id = Some(pl)))))

\* a comparison with a null cell is False
CellGE(cell, bound) == cell # None /\ Val(cell) >= bound

\* mutant: a pass counts from x > 80 on
FinalThirdMaskStrict(r) == r.event_type = "Pass" /\ r.x # None /\ Val(r.x) > 80

\* line 116: (df.event_type == "Pass") & (df.x >= 80)
FinalThirdMask(r) == r.event_type = "Pass" /\ CellGE(r.x, 80)

\* line 116
Passes(df) == GroupSize(SelectSeq(df, FinalThirdMask), "final_third_passes")

\* line 117
Assists(df) ==
    GroupSize(SelectSeq(df, LAMBDA r : r.event_type = "Pass" /\ r.shot_assist), "shot_assists")

\* line 118: df[df.xg.notna()].groupby("player_id")["xg"].sum()
Xg(df) ==
    LET keyed == SelectSeq(df, LAMBDA r : r.xg # None /\ r.player_id # None)
        players == SortedSeq({Val(r.player_id) : r \in Range(keyed)})
    IN MapSeq(players, LAMBDA pl :
           [player_id |-> pl,
            xg |-> SumSeq(MapSeq(SelectSeq(keyed, LAMBDA r : r.player_id = Some(pl)),
                                 LAMBDA r : Val(r.xg)))])

\* left.merge(right, how="left") on player_id, for a right frame with the
\* columns player_id and col: every left row once for each right row of its
\* player_id, in the right frame's order, or once with a null cell in col
\* when there is none
MergeLeft(left, right, col) ==
    Flatten(MapSeq(left, LAMBDA l :
        LET ms == SelectSeq(right, LAMBDA r : r.player_id = l.player_id)
        IN IF ms = <<>> THEN <<l @@ (col :> None)>>
           ELSE MapSeq(ms, LAMBDA r : l @@ (col :> Some(r[col])))))

\* .fillna(0) on the three merged columns
FillNa0(r) ==
    [player_id |-> r.player_id,
     minutes_played |-> r.minutes_played,
     final_third_passes |-> GetOr(r.final_third_passes, 0),
     shot_assists |-> GetOr(r.shot_assists, 0),
     xg |-> GetOr(r.xg, 0)]

\* line 120
Merged(df) ==
    LET m1 == MergeLeft(Minutes(df), Passes(df), "final_third_passes")
        m2 == MergeLeft(m1, Assists(df), "shot_assists")
        m3 == MergeLeft(m2, Xg(df), "xg")
    IN MapSeq(m3, FillNa0)

\* mutant: the filter keeps a player only above 300 minutes
EnoughMinutesStrict(r) == r.minutes_played > 300

\* line 121: out.minutes_played >= 300
EnoughMinutes(r) == r.minutes_played >= 300

\* lines 123-124: the two rates, as exact fractions num/den
WithPer90(r) ==
    r @@ ("final_third_passes_per90" :> [num |-> r.final_third_passes * 90, den |-> r.minutes_played])
      @@ ("xg_per90" :> [num |-> r.xg * 90, den |-> r.minutes_played])

\* build_per90(df) for a frame with at least one row
Per90(df) == MapSeq(SelectSeq(Merged(df), EnoughMinutes), WithPer90)

\* lines 106-126; a frame built from no rows has no columns, and
\* df.dropna(subset=["player_id", "minute"]) raises KeyError on it
BuildPer90 ==
    /\ pc = "build_per90"
    /\ IF Val(df_events_clean) = <<>>
       THEN /\ pc' = "raised"
            /\ df_per90' = None
       ELSE /\ pc' = "get_player_lookup"
            /\ df_per90' = Some(Per90(Val(df_events_clean)))
    /\ UNCHANGED <<df_matches, df_events_clean, df_players, df_per90_named>>
    /\ UNCHANGED resolverVars
    /\ UNCHANGED normVars

\* .drop_duplicates(): the first occurrence of every row is kept
RECURSIVE DropDuplicates(_)
DropDuplicates(s) ==
    IF s = <<>> THEN <<>>
    ELSE LET init == DropDuplicates(SubSeq(s, 1, Len(s) - 1))
             last == s[Len(s)]
         IN IF last \in Range(init) THEN init ELSE Append(init, last)

\* lines 150-156
PlayerLookup(df) ==
    LET pairs == MapSeq(df, LAMBDA r : [player_id |-> r.player_id, player_name |-> r.player_name])
        full == SelectSeq(pairs, LAMBDA r : r.player_id # None /\ r.player_name # None)
    IN DropDuplicates(MapSeq(full, LAMBDA r :
           [player_id |-> Val(r.player_id), player_name |-> Val(r.player_name)]))

\* line 284
GetPlayerLookup ==
    /\ pc = "get_player_lookup"
    /\ df_players' = Some(PlayerLookup(Val(df_events_clean)))
    /\ pc' = "merge_names"
    /\ UNCHANGED <<df_matches, df_events_clean, df_per90, df_per90_named>>
    /\ UNCHANGED resolverVars
    /\ UNCHANGED normVars

\* line 285: df_per90.merge(df_players, on="player_id", how="left")
MergeNames ==
    /\ pc = "merge_names"
    /\ df_per90_named' =
          Some(MergeLeft(Val(df_per90), Val(df_players), "player_name"))
    /\ pc' = "named"
    /\ UNCHANGED <<df_matches, df_events_clean, df_per90, df_players>>
    /\ UNCHANGED resolverVars
    /\ UNCHANGED normVars

\* a row of the frame build_clean_events returns
NRow(mid, pid, pname, etype, x, sa, xg, minute) ==
    [match_id |-> mid, player_id |-> pid, player_name |-> pname, event_type |-> etype,
     x |-> x, y |-> IF x = None THEN None ELSE Some(40),
     end_x |-> None, end_y |-> None, shot_assist |-> sa, xg |-> xg, minute |-> minute]

NameOf(pid) == IF pid = None THEN None ELSE IF pid = Some(1) THEN Some("A") ELSE Some("B")

\* rows that differ in match, player and minute, and a row without player;
\* the minutes are spread so that a player can reach the 300 minutes of the
\* filter, exactly or by one short of it, within MaxRows rows
MinuteRows ==
    {NRow(MatchIdAt(m), pid, NameOf(pid), "Pass", Some(85), FALSE, None, t) :
        m \in {1, 2}, pid \in {Some(1), Some(2)},
        t \in {None, Some(5), Some(304), Some(305)}}
    \cup {NRow(MatchIdAt(1), None, None, "Pass", Some(85), FALSE, None, Some(305))}

\* what a row counts for: passes short of and on x = 80 or without a
\* location, with and without shot_assist, shots with and without xg
Payloads ==
    {[event_type |-> "Pass", x |-> None, shot_assist |-> FALSE, xg |-> None],
     [event_type |-> "Pass", x |-> Some(79), shot_assist |-> TRUE, xg |-> None],
     [event_type |-> "Pass", x |-> Some(80), shot_assist |-> FALSE, xg |-> None],
     [event_type |-> "Shot", x |-> Some(110), shot_assist |-> FALSE, xg |-> None],
     [event_type |-> "Shot", x |-> Some(110), shot_assist |-> FALSE, xg |-> Some(100)],
     [event_type |-> "Shot", x |-> Some(110), shot_assist |-> FALSE, xg |-> Some(350)]}

\* the rows of another player that the counts of player 1 must leave out
OtherPayloads == {c \in Payloads : c.x # None /\ (c.event_type = "Pass" \/ c.xg = Some(350))}

\* rows that differ in what they count for: player 1 at minute 5 or 305,
\* player 2 at minute 5
StatRows ==
    {NRow(MatchIdAt(1), Some(1), Some("A"), c.event_type, c.x, c.shot_assist, c.xg, Some(t)) :
        c \in Payloads, t \in {5, 305}}
    \cup {NRow(MatchIdAt(1), Some(2), Some("B"), c.event_type, c.x, c.shot_assist, c.xg, Some(5)) :
        c \in OtherPayloads}

\* rows that differ in player, name and minute
NameRows ==
    {NRow(MatchIdAt(1), Some(pl), n, "Pass", Some(85), FALSE, None, Some(t)) :
        pl \in {1, 2}, n \in {None, Some("A"), Some("B")}, t \in {5, 305}}

InitAgg ==
    /\ pc = "build_per90"
    /\ \E k \in 0..MaxRows :
          \E rows \in {MinuteRows, StatRows, NameRows} :
             \E s \in [1..k -> rows] : df_events_clean = Some(s)
    /\ df_matches = PlainCatalog(2)
    /\ team1 = "Argentina"
    /\ team2 = "Mexico"
    /\ match_id = None
    /\ st_error = None
    /\ files = <<>>
    /\ mi = 0
    /\ events = <<>>
    /\ ei = 0
    /\ event_rows = <<>>
    /\ df_per90 = None
    /\ df_players = None
    /\ df_per90_named = None

NextAgg == BuildPer90 \/ GetPlayerLookup \/ MergeNames

SpecAgg == InitAgg /\ [][NextAgg]_vars

-----------------------------------------------------------------------------
(* Claims about build_per90 and the join                                     *)

InputFrame == Val(df_events_clean)
OutputFrame == Val(df_per90)

\* build_per90 has just returned its frame (no later step changes it)
Per90Returned == pc = "get_player_lookup"

PlayerIds(df) == {Val(df[i].player_id) : i \in {j \in 1..Len(df) : df[j].player_id # None}}

\* the non-null minutes of a player's events in one match
MinutesIn(df, m, pl) ==
    {Val(df[i].minute) : i \in {j \in 1..Len(df) :
        df[j].match_id = m /\ df[j].player_id = Some(pl) /\ df[j].minute # None}}

\* the matches in which the player has an event with a non-null minute
MatchesOf(df, pl) == {m \in {df[i].match_id : i \in 1..Len(df)} : MinutesIn(df, m, pl) # {}}

Max2(a, b) == IF a >= b THEN a ELSE b

\* the claimed total: over those matches, the sum of max(1, max - min)
ClaimedMinutes(df, pl) ==
    SumSeq(MapSeq(SortedSeq(MatchesOf(df, pl)), LAMBDA m :
        Max2(1, SetMax(MinutesIn(df, m, pl)) - SetMin(MinutesIn(df, m, pl)))))

InOutput(pl) == \E i \in 1..Len(OutputFrame) : OutputFrame[i].player_id = pl

\* C5: every player of the output has at least 300 minutes, a player with
\* fewer never appears, and a player with at least 300 appears whatever
\* the player's final-third passes.
C5_MinimumMinutesFilter ==
    Per90Returned =>
        /\ \A i \in 1..Len(OutputFrame) : OutputFrame[i].minutes_played >= 300
        /\ \A pl \in PlayerIds(InputFrame) :
              InOutput(pl) <=> ClaimedMinutes(InputFrame, pl) >= 300

\* player 1 has 300 minutes and no final-third pass and is the output;
\* player 2 has fewer minutes and is not in it
C5_Witness ==
    /\ Per90Returned
    /\ Len(OutputFrame) = 1
    /\ OutputFrame[1].player_id = 1
    /\ OutputFrame[1].final_third_passes = 0
    /\ 2 \in PlayerIds(InputFrame)
    /\ ClaimedMinutes(InputFrame, 2) \in 1..299

\* C6: minutes_played is the sum, over the matches in which the player has
\* an event with a non-null minute, of max(1, max minute - min minute); a
\* match whose events share one minute counts 1.
C6_MinutesPlayedIsClampedSum ==
    Per90Returned =>
        /\ \A i \in 1..Len(OutputFrame) :
              OutputFrame[i].minutes_played = ClaimedMinutes(InputFrame, OutputFrame[i].player_id)
        /\ LET minutes == Minutes(InputFrame)
           IN /\ {minutes[i].player_id : i \in 1..Len(minutes)}
                    = {pl \in PlayerIds(InputFrame) : MatchesOf(InputFrame, pl) # {}}
              /\ \A i \in 1..Len(minutes) :
                    minutes[i].minutes_played = ClaimedMinutes(InputFrame, minutes[i].player_id)

\* 300 minutes made of 299 in one match and 1 for a match with one event
C6_Witness ==
    /\ Per90Returned
    /\ \E i \in 1..Len(OutputFrame) :
          LET pl == OutputFrame[i].player_id
          IN /\ OutputFrame[i].minutes_played = 300
             /\ Cardinality(MatchesOf(InputFrame, pl)) = 2
             /\ \E m \in MatchesOf(InputFrame, pl) :
                   Cardinality({j \in 1..Len(InputFrame) :
                       InputFrame[j].match_id = m /\ InputFrame[j].player_id = Some(pl)}) = 1

RowsOf(df, pl) == {i \in 1..Len(df) : df[i].player_id = Some(pl)}

\* C9: final_third_passes, shot_assists and xg of an output row are the
\* number of the player's passes with x >= 80, the number of the player's
\* passes with shot_assist, and the sum of the player's non-null xg.
C9_CountsAndSums ==
    Per90Returned =>
        \A i \in 1..Len(OutputFrame) :
            LET r == OutputFrame[i]
                mine == RowsOf(InputFrame, r.player_id)
                passes == {j \in mine : InputFrame[j].event_type = "Pass"}
            IN /\ r.final_third_passes =
                     Cardinality({j \in passes : /\ InputFrame[j].x # None
                                                 /\ Val(InputFrame[j].x) >= 80})
               /\ r.shot_assists = Cardinality({j \in passes : InputFrame[j].shot_assist})
               /\ r.xg = SumSeq(MapSeq(SortedSeq({j \in mine : InputFrame[j].xg # None}),
                                       LAMBDA j : Val(InputFrame[j].xg)))

\* a player with a pass without location, a shot-assist pass short of the
\* final third and a shot: no final-third pass, one assist, the shot's xg
C9_Witness ==
    /\ Per90Returned
    /\ Len(OutputFrame) = 1
    /\ OutputFrame[1].final_third_passes = 0
    /\ OutputFrame[1].shot_assists = 1
    /\ OutputFrame[1].xg = 350
    /\ \E j \in RowsOf(InputFrame, OutputFrame[1].player_id) :
          InputFrame[j].event_type = "Pass" /\ InputFrame[j].x = None

\* C10: no player_id is in two rows of the per-90 frame, nor of the frame
\* joined with the player names.
C10_OneRowPerPlayerAfterJoin ==
    /\ df_per90 # None =>
          \A i, j \in 1..Len(OutputFrame) :
              OutputFrame[i].player_id = OutputFrame[j].player_id => i = j
    /\ df_per90_named # None =>
          \A i, j \in 1..Len(Val(df_per90_named)) :
              Val(df_per90_named)[i].player_id = Val(df_per90_named)[j].player_id => i = j

====
